---- MODULE Spec2Model ----
(***************************************************************************)
(* Model of the file-ingestion and chat application: file_processor.py     *)
(* (FileProcessor), Helper.py (ChatManager) and app.py (the Streamlit      *)
(* script).  Python str and bytes values are sequences of code points /    *)
(* byte values, so that messages, tags and extracted text are compared     *)
(* character by character.                                                 *)
(***************************************************************************)
EXTENDS Integers, Sequences, FiniteSets, TLC

\* ------------------------------------------------------------------ bounds
\* Longest byte content enumerated for the text and CSV extractors.
MaxLen == 3
\* Most pages of an enumerated PDF document.
MaxPages == 2
\* Most files the file-uploader widget holds at once.
MaxBatch == 2
\* Most turns kept in the chat history.
MaxHistory == 4
\* Most turns the client's persistent chat session holds.
MaxChat == 2

\* ------------------------------------------------------- str / bytes helpers
RECURSIVE Concat(_)
\* "".join(parts)
Concat(parts) ==
    IF parts = <<>> THEN <<>> ELSE Head(parts) \o Concat(Tail(parts))

\* one character of str.lower()
LowerChar(c) == IF c >= 65 /\ c <= 90 THEN c + 32 ELSE c

\* one character of str.upper()
UpperChar(c) == IF c >= 97 /\ c <= 122 THEN c - 32 ELSE c

\* str.lower()
Lower(s) == [i \in 1..Len(s) |-> LowerChar(s[i])]

\* str.upper()
Upper(s) == [i \in 1..Len(s) |-> UpperChar(s[i])]

\* index of the first occurrence of sep in s, 0 when there is none
Find(s, sep) ==
    IF \A i \in 1..Len(s) : s[i] # sep THEN 0
    ELSE CHOOSE i \in 1..Len(s) : s[i] = sep /\ \A j \in 1..(i - 1) : s[j] # sep

RECURSIVE SplitAt(_, _, _)
\* str.split(sep) given the index k of the first separator
SplitAt(s, sep, k) ==
    IF k = 0 THEN <<s>>
    ELSE <<SubSeq(s, 1, k - 1)>>
         \o SplitAt(SubSeq(s, k + 1, Len(s)), sep,
                    Find(SubSeq(s, k + 1, Len(s)), sep))

\* str.split(sep) for a one-character separator: the list of fields
Split(s, sep) == SplitAt(s, sep, Find(s, sep))

\* the characters str.strip() removes, str.isspace(), below U+0100
Whitespace == {9, 10, 11, 12, 13, 28, 29, 30, 31, 32, 133, 160}

\* not s.strip()
IsBlank(s) == \A i \in 1..Len(s) : s[i] \in Whitespace

\* sub in s
Contains(s, sub) ==
    \E i \in 0..(Len(s) - Len(sub)) : SubSeq(s, i + 1, i + Len(sub)) = sub

RECURSIVE IntToStr(_)
\* str(n) for n >= 0, as an f-string formats an int
IntToStr(n) ==
    IF n < 10 THEN <<48 + n>> ELSE IntToStr(n \div 10) \o <<48 + (n % 10)>>

\* ------------------------------------------------------------------ codecs
IsCont(b) == b >= 128 /\ b <= 191

\* a decoded character in front of the decoding of the rest
Prepend(c, r) == [ok |-> r.ok, text |-> <<c>> \o r.text]

RECURSIVE DecodeUtf8(_)
\* bytes.decode('utf-8'): [ok, text]; one-, two- and three-byte forms
\* (lead bytes 0xE0, 0xED and 0xF0.. are outside the enumerated alphabet)
DecodeUtf8(b) ==
    IF b = <<>> THEN [ok |-> TRUE, text |-> <<>>]
    ELSE IF b[1] < 128
    THEN Prepend(b[1], DecodeUtf8(Tail(b)))
    ELSE IF b[1] >= 194 /\ b[1] <= 223 /\ Len(b) >= 2 /\ IsCont(b[2])
    THEN Prepend((b[1] - 192) * 64 + (b[2] - 128),
                 DecodeUtf8(SubSeq(b, 3, Len(b))))
    ELSE IF b[1] \in ((225..236) \cup {238, 239}) /\ Len(b) >= 3
            /\ IsCont(b[2]) /\ IsCont(b[3])
    THEN Prepend((b[1] - 224) * 4096 + (b[2] - 128) * 64 + (b[3] - 128),
                 DecodeUtf8(SubSeq(b, 4, Len(b))))
    ELSE [ok |-> FALSE, text |-> <<>>]

\* bytes.decode('latin-1'): every byte is the code point of the same value
DecodeLatin1(b) == [ok |-> TRUE, text |-> b]

\* the bytes Python's cp1252 codec leaves undefined
Cp1252Undefined == {129, 141, 143, 144, 157}

\* cp1252 code points of the bytes 0x80..0x9F (0 where undefined)
Cp1252High ==
    <<8364, 0, 8218, 402, 8222, 8230, 8224, 8225, 710, 8240, 352, 8249, 338,
      0, 381, 0, 0, 8216, 8217, 8220, 8221, 8226, 8211, 8212, 732, 8482, 353,
      8250, 339, 0, 382, 376>>

\* bytes.decode('cp1252')
DecodeCp1252(b) ==
    IF \E i \in 1..Len(b) : b[i] \in Cp1252Undefined
    THEN [ok |-> FALSE, text |-> <<>>]
    ELSE [ok |-> TRUE,
          text |-> [i \in 1..Len(b) |->
                       IF b[i] >= 128 /\ b[i] <= 159
                       THEN Cp1252High[b[i] - 127] ELSE b[i]]]

\* bytes.decode(encoding)
Decode(b, encoding) ==
    CASE encoding = "utf-8" -> DecodeUtf8(b)
      [] encoding = "latin-1" -> DecodeLatin1(b)
      [] encoding = "cp1252" -> DecodeCp1252(b)

\* --------------------------------------------------------------- variables
VARIABLES
    importable,      \* the optional libraries whose import succeeds at process start
    uploaded_file,   \* the blob handed to FileProcessor: name, size, data, parsed forms
    file_state,      \* its file object and the spy: pos, reads, calls, attempts
    result,          \* outcome of the last FileProcessor call
    uploaded_files,  \* st.session_state.uploaded_files
    chat_history,    \* st.session_state.chat_history
    chat_manager,    \* ChatManager: _initialized and chat, the turns its session holds
    widget,          \* the files the st.file_uploader widget holds
    last_run         \* what the last script run did (errors shown, client call)

vars == <<importable, uploaded_file, file_state, result, uploaded_files,
          chat_history, chat_manager, widget, last_run>>

\* ------------------------------------------------- capability probe (import)
\* file_processor.py module level: PyPDF2 is tried first, pdfplumber second
PDF_AVAILABLE == "PyPDF2" \in importable \/ "pdfplumber" \in importable

\* 'USE_PDFPLUMBER' in globals() and USE_PDFPLUMBER: the name is bound only
\* when the import of PyPDF2 failed
USE_PDFPLUMBER == "PyPDF2" \notin importable /\ "pdfplumber" \in importable

DOCX_AVAILABLE == "docx" \in importable

EXCEL_AVAILABLE == "openpyxl" \in importable

\* FileProcessor.max_file_size
max_file_size == 10 * 1024 * 1024

\* FileProcessor.get_supported_types
get_supported_types ==
    <<<<116, 120, 116>>, <<99, 115, 118>>>>
    \o (IF PDF_AVAILABLE THEN <<<<112, 100, 102>>>> ELSE <<>>)
    \o (IF DOCX_AVAILABLE THEN <<<<100, 111, 99, 120>>>> ELSE <<>>)
    \o (IF EXCEL_AVAILABLE THEN <<<<120, 108, 115, 120>>, <<120, 108, 115>>>> ELSE <<>>)

\* ------------------------------------------------------------- file object
\* uploaded_file.read(): the bytes from the read position to the end
Read(blob, st) ==
    [bytes |-> SubSeq(blob.data, st.pos + 1, Len(blob.data)),
     st |-> [st EXCEPT !.pos = Len(blob.data), !.reads = @ + 1]]

\* uploaded_file.seek(0)
Seek0(st) == [st EXCEPT !.pos = 0]

\* spy: a function of FileProcessor is entered
Enter(st, fn) == [st EXCEPT !.calls = Append(@, fn)]

\* spy: one decoding attempt, with the read position it started from
Log(st, fn, encoding, sep, pos, ok) ==
    [st EXCEPT !.attempts =
        Append(@, [fn |-> fn, encoding |-> encoding, sep |-> sep,
                   pos |-> pos, ok |-> ok])]

\* a raised Exception(message)
Raise(message, st) == [ok |-> FALSE, value |-> message, st |-> st]

\* a returned str
Return(content, st) == [ok |-> TRUE, value |-> content, st |-> st]

\* ---------------------------------------------------------- text extractor
\* encodings = ['utf-8', 'latin-1', 'cp1252']
encodings == <<"utf-8", "latin-1", "cp1252">>

\* the two branches of the try of lines 83-89 without the seek(0) of the
\* except branch
TextOutcome_NoSeekOnError(d, st, encoding, pos) ==
    IF d.ok
    THEN [done |-> TRUE, value |-> d.text,
          st |-> Seek0(Log(st, "text", encoding, 0, pos, TRUE))]
    ELSE [done |-> FALSE, value |-> <<>>,
          st |-> Log(st, "text", encoding, 0, pos, FALSE)]

\* the two branches of the try of lines 83-89: decoded (seek(0), return) or
\* UnicodeDecodeError (seek(0), continue)
TextOutcome(d, st, encoding, pos) ==
    IF d.ok
    THEN [done |-> TRUE, value |-> d.text,
          st |-> Seek0(Log(st, "text", encoding, 0, pos, TRUE))]
    ELSE [done |-> FALSE, value |-> <<>>,
          st |-> Seek0(Log(st, "text", encoding, 0, pos, FALSE))]

\* one pass of the for loop of _process_text_file: read() and decode
TextAttempt(blob, st, encoding) ==
    TextOutcome(Decode(Read(blob, st).bytes, encoding), Read(blob, st).st,
                encoding, st.pos)

RECURSIVE TextLoop(_, _, _)
\* after one pass: return its text, or go on with the next encoding
TextStep(blob, a, k) ==
    IF a.done THEN Return(a.value, a.st) ELSE TextLoop(blob, a.st, k + 1)

\* the for loop of _process_text_file from encodings[k] on, and the raise
\* after it as the outer except re-raises it
TextLoop(blob, st, k) ==
    IF k > Len(encodings)
    THEN Raise(<<69, 114, 114, 111, 114, 32, 114, 101, 97, 100, 105, 110, 103, 32, 116, 101, 120, 116, 32, 102, 105, 108, 101, 58, 32>>
               \o <<85, 110, 97, 98, 108, 101, 32, 116, 111, 32, 100, 101, 99, 111, 100, 101, 32, 102, 105, 108, 101, 32, 119, 105, 116, 104, 32, 99, 111, 109, 109, 111, 110, 32, 101, 110, 99, 111, 100, 105, 110, 103, 115>>, st)
    ELSE TextStep(blob, TextAttempt(blob, st, encodings[k]), k)

\* FileProcessor._process_text_file
_process_text_file(blob, st) ==
    TextLoop(blob, Enter(st, "_process_text_file"), 1)

\* ----------------------------------------------------------- pandas tables
\* the lines of a decoded text that the parser keeps (skip_blank_lines)
Lines(text) == SelectSeq(Split(text, 10), LAMBDA l : l # <<>>)

\* the widest a record may be: the header's width, or the first record's
\* when that is wider (its leading fields then become the index)
TableWidth(header, records) ==
    IF records # <<>> /\ Len(records[1]) > Len(header)
    THEN Len(records[1]) ELSE Len(header)

\* column k's name: 'Unnamed: k' for an empty header field, and a repeated
\* name gets the count of its earlier occurrences as suffix
ColumnName(header, k) ==
    LET n == Cardinality({j \in 1..(k - 1) : header[j] = header[k]})
    IN  IF header[k] = <<>> THEN <<85, 110, 110, 97, 109, 101, 100, 58, 32>> \o IntToStr(k - 1)
        ELSE IF n > 0 THEN header[k] \o <<46>> \o IntToStr(n)
        ELSE header[k]

\* one record as a row of the frame: padded to the table width, the index
\* fields dropped
FrameRow(record, width, ncols) ==
    [k \in 1..ncols |->
        LET j == k + (width - ncols)
        IN  IF j <= Len(record) THEN record[j] ELSE <<>>]

\* a raised UnicodeDecodeError, EmptyDataError or ParserError
ParseFailed == [ok |-> FALSE, columns |-> <<>>, rows |-> <<>>]

\* the frame of a header and records of a known table width; a record
\* after the first that is wider than the table is a ParserError
FrameOfWidth(header, records, width) ==
    IF \E i \in 2..Len(records) : Len(records[i]) > width
    THEN ParseFailed
    ELSE [ok |-> TRUE,
          columns |-> [k \in 1..Len(header) |-> ColumnName(header, k)],
          rows |-> [i \in 1..Len(records) |->
                       FrameRow(records[i], width, Len(header))]]

\* the frame of the kept lines: the first is the header, the rest are the
\* records; no line at all is an EmptyDataError
ParseLines(lines, sep) ==
    IF lines = <<>> THEN ParseFailed
    ELSE FrameOfWidth(
             Split(lines[1], sep),
             [i \in 1..(Len(lines) - 1) |-> Split(lines[i + 1], sep)],
             TableWidth(Split(lines[1], sep),
                        [i \in 1..(Len(lines) - 1) |-> Split(lines[i + 1], sep)]))

\* the frame of a decoded text; a failed decoding is a UnicodeDecodeError
ParseText(d, sep) ==
    IF d.ok THEN ParseLines(Lines(d.text), sep) ELSE ParseFailed

\* pd.read_csv(uploaded_file, encoding=encoding, sep=sep) on the bytes it
\* reads: [ok, columns, rows]
read_csv(bytes, encoding, sep) == ParseText(Decode(bytes, encoding), sep)

RECURSIVE Join(_, _)
\* sep.join(parts)
Join(parts, sep) ==
    IF parts = <<>> THEN <<>>
    ELSE IF Len(parts) = 1 THEN parts[1]
    ELSE parts[1] \o sep \o Join(Tail(parts), sep)

\* df.to_string(index=False): the header line and one line per row, cells
\* separated by a blank, a missing cell shown as NaN (the padding that
\* aligns the columns is left out)
to_string(df) ==
    IF df.rows = <<>>
    THEN <<69, 109, 112, 116, 121, 32, 68, 97, 116, 97, 70, 114, 97, 109, 101, 10, 67, 111, 108, 117, 109, 110, 115, 58, 32, 91>> \o Join(df.columns, <<44, 32>>)
         \o <<93, 10, 73, 110, 100, 101, 120, 58, 32, 91, 93>>
    ELSE Join(<<Join(df.columns, <<32>>)>>
              \o [i \in 1..Len(df.rows) |->
                    Join([k \in 1..Len(df.rows[i]) |->
                            IF df.rows[i][k] = <<>> THEN <<78, 97, 78>>
                            ELSE df.rows[i][k]], <<32>>)],
              <<10>>)

\* ----------------------------------------------------------- CSV extractor
\* separators = [',', ';', '\t']
separators == <<44, 59, 9>>

\* the (encoding, separator) pairs in the order of the nested for loops
Pairs ==
    [k \in 1..(Len(encodings) * Len(separators)) |->
        [encoding |-> encodings[((k - 1) \div Len(separators)) + 1],
         sep |-> separators[((k - 1) % Len(separators)) + 1]]]

\* the test of lines 191-193 accepting only frames of more than one column
Accepted_ColumnsOnly(df) ==
    /\ df.ok
    /\ Len(df.columns) > 1
    /\ ~IsBlank(to_string(df))

\* the test of lines 191-193 on a parsed frame (a frame that failed to
\* parse raised before it)
Accepted(df) ==
    /\ df.ok
    /\ (Len(df.columns) > 1 \/ Len(df.rows) > 0)
    /\ ~IsBlank(to_string(df))

\* what one pass leaves: accepted with the rendering, or not accepted
CsvOutcome(df, acc, st, encoding, sep, pos) ==
    [accepted |-> acc,
     value |-> IF acc THEN to_string(df) ELSE <<>>,
     st |-> Log(st, "csv", encoding, sep, pos, acc)]

\* the loop body of _process_csv_file without its seek(0)
CsvAttempt_NoSeek(blob, st, encoding, sep) ==
    CsvOutcome(read_csv(Read(blob, st).bytes, encoding, sep),
               Accepted(read_csv(Read(blob, st).bytes, encoding, sep)),
               Read(blob, st).st, encoding, sep, st.pos)

\* the loop body of _process_csv_file: seek(0), read_csv, the acceptance
\* test; any exception is swallowed (continue)
CsvAttempt(blob, st, encoding, sep) ==
    CsvOutcome(read_csv(Read(blob, Seek0(st)).bytes, encoding, sep),
               Accepted(read_csv(Read(blob, Seek0(st)).bytes, encoding, sep)),
               Read(blob, Seek0(st)).st, encoding, sep, Seek0(st).pos)

\* the outer except of _process_csv_file re-raises a failure
CsvReraise(t) ==
    IF t.ok THEN t ELSE Raise(<<69, 114, 114, 111, 114, 32, 114, 101, 97, 100, 105, 110, 103, 32, 67, 83, 86, 32, 102, 105, 108, 101, 58, 32>> \o t.value, t.st)

\* the tail of _process_csv_file: seek(0), then the text extractor
CsvFallback(blob, st) == CsvReraise(_process_text_file(blob, Seek0(st)))

RECURSIVE CsvLoop(_, _, _)
\* after one pass: return its rendering, or go on with the next pair
CsvStep(blob, a, k) ==
    IF a.accepted THEN Return(a.value, a.st) ELSE CsvLoop(blob, a.st, k + 1)

\* the nested for loops of _process_csv_file from pair k on
CsvLoop(blob, st, k) ==
    IF k > Len(Pairs)
    THEN CsvFallback(blob, st)
    ELSE CsvStep(blob, CsvAttempt(blob, st, Pairs[k].encoding, Pairs[k].sep), k)

\* FileProcessor._process_csv_file
_process_csv_file(blob, st) ==
    CsvLoop(blob, Enter(st, "_process_csv_file"), 1)

\* ----------------------------------------------------------- PDF extractor
RECURSIVE PlumberPages(_)
\* the pdfplumber loop: a page with text adds its text and a line break
PlumberPages(pages) ==
    IF pages = <<>> THEN <<>>
    ELSE (IF Head(pages) # <<>> THEN Head(pages) \o <<10>> ELSE <<>>)
         \o PlumberPages(Tail(pages))

RECURSIVE PyPDF2Pages(_)
\* the PyPDF2 loop: every page adds its text and a line break
PyPDF2Pages(pages) ==
    IF pages = <<>> THEN <<>>
    ELSE Head(pages) \o <<10>> \o PyPDF2Pages(Tail(pages))

\* lines 104-117: the loop of the backend bound at import
PdfContent(pages) ==
    IF USE_PDFPLUMBER THEN PlumberPages(pages) ELSE PyPDF2Pages(pages)

\* lines 101-125: the backend opens the blob and the pages are read; a
\* backend error or an empty result is re-raised by the except
PdfExtract(blob, st) ==
    IF ~blob.pdf.valid
    THEN Raise(<<69, 114, 114, 111, 114, 32, 114, 101, 97, 100, 105, 110, 103, 32, 80, 68, 70, 32, 102, 105, 108, 101, 58, 32>> \o <<69, 79, 70, 32, 109, 97, 114, 107, 101, 114, 32, 110, 111, 116, 32, 102, 111, 117, 110, 100>>,
               Read(blob, st).st)
    ELSE IF IsBlank(PdfContent(blob.pdf.pages))
    THEN Raise(<<69, 114, 114, 111, 114, 32, 114, 101, 97, 100, 105, 110, 103, 32, 80, 68, 70, 32, 102, 105, 108, 101, 58, 32>>
               \o <<78, 111, 32, 116, 101, 120, 116, 32, 99, 111, 110, 116, 101, 110, 116, 32, 102, 111, 117, 110, 100, 32, 105, 110, 32, 80, 68, 70>>, Read(blob, st).st)
    ELSE Return(PdfContent(blob.pdf.pages), Read(blob, st).st)

\* _process_pdf_file without the test of PDF_AVAILABLE
_process_pdf_file_NoGuard(blob, st) ==
    PdfExtract(blob, Enter(st, "_process_pdf_file"))

\* FileProcessor._process_pdf_file
_process_pdf_file(blob, st) ==
    IF ~PDF_AVAILABLE
    THEN Raise(<<80, 68, 70, 32, 112, 114, 111, 99, 101, 115, 115, 105, 110, 103, 32, 108, 105, 98, 114, 97, 114, 105, 101, 115, 32, 110, 111, 116, 32, 97, 118, 97, 105, 108, 97, 98, 108, 101, 46, 32>>
               \o <<80, 108, 101, 97, 115, 101, 32, 105, 110, 115, 116, 97, 108, 108, 32, 80, 121, 80, 68, 70, 50, 32, 111, 114, 32, 112, 100, 102, 112, 108, 117, 109, 98, 101, 114, 46>>,
               Enter(st, "_process_pdf_file"))
    ELSE PdfExtract(blob, Enter(st, "_process_pdf_file"))

\* ---------------------------------------------------------- DOCX extractor
\* lines 137-138: every paragraph's text and a line break
DocxParagraphs(paragraphs) ==
    Concat([i \in 1..Len(paragraphs) |-> paragraphs[i] \o <<10>>])

\* lines 141-145: every cell's text and a blank, a line break after each row
DocxTables(tables) ==
    Concat([t \in 1..Len(tables) |->
        Concat([r \in 1..Len(tables[t]) |->
            Concat([c \in 1..Len(tables[t][r]) |-> tables[t][r][c] \o <<32>>])
            \o <<10>>])])

\* FileProcessor._process_docx_file
_process_docx_file(blob, st) ==
    LET s0 == Enter(st, "_process_docx_file") IN
    IF ~DOCX_AVAILABLE
    THEN Raise(<<68, 79, 67, 88, 32, 112, 114, 111, 99, 101, 115, 115, 105, 110, 103, 32, 108, 105, 98, 114, 97, 114, 121, 32, 110, 111, 116, 32, 97, 118, 97, 105, 108, 97, 98, 108, 101, 46, 32>>
               \o <<80, 108, 101, 97, 115, 101, 32, 105, 110, 115, 116, 97, 108, 108, 32, 112, 121, 116, 104, 111, 110, 45, 100, 111, 99, 120, 46>>, s0)
    ELSE LET s1 == Read(blob, s0).st
             content == DocxParagraphs(blob.docx.paragraphs)
                        \o DocxTables(blob.docx.tables)
         IN  IF ~blob.docx.valid
             THEN Raise(<<69, 114, 114, 111, 114, 32, 114, 101, 97, 100, 105, 110, 103, 32, 68, 79, 67, 88, 32, 102, 105, 108, 101, 58, 32>>
                        \o <<80, 97, 99, 107, 97, 103, 101, 32, 110, 111, 116, 32, 102, 111, 117, 110, 100>>, s1)
             ELSE IF IsBlank(content)
             THEN Raise(<<69, 114, 114, 111, 114, 32, 114, 101, 97, 100, 105, 110, 103, 32, 68, 79, 67, 88, 32, 102, 105, 108, 101, 58, 32>>
                        \o <<78, 111, 32, 116, 101, 120, 116, 32, 99, 111, 110, 116, 101, 110, 116, 32, 102, 111, 117, 110, 100, 32, 105, 110, 32, 68, 79, 67, 88, 32, 102, 105, 108, 101>>, s1)
             ELSE Return(content, s1)

\* --------------------------------------------------------- Excel extractor
\* lines 165-167: a header line naming the sheet, then its frame
ExcelSheets(sheets) ==
    Concat([i \in 1..Len(sheets) |->
        <<10, 45, 45, 45, 32, 83, 104, 101, 101, 116, 58, 32>> \o sheets[i].name \o <<32, 45, 45, 45, 10>>
        \o to_string(sheets[i].df) \o <<10>>])

\* FileProcessor._process_excel_file
_process_excel_file(blob, st) ==
    LET s0 == Enter(st, "_process_excel_file") IN
    IF ~EXCEL_AVAILABLE
    THEN Raise(<<69, 120, 99, 101, 108, 32, 112, 114, 111, 99, 101, 115, 115, 105, 110, 103, 32, 108, 105, 98, 114, 97, 114, 121, 32, 110, 111, 116, 32, 97, 118, 97, 105, 108, 97, 98, 108, 101, 46, 32>>
               \o <<80, 108, 101, 97, 115, 101, 32, 105, 110, 115, 116, 97, 108, 108, 32, 111, 112, 101, 110, 112, 121, 120, 108, 46>>, s0)
    ELSE LET s1 == Read(blob, s0).st
             content == ExcelSheets(blob.excel.sheets)
         IN  IF ~blob.excel.valid
             THEN Raise(<<69, 114, 114, 111, 114, 32, 114, 101, 97, 100, 105, 110, 103, 32, 69, 120, 99, 101, 108, 32, 102, 105, 108, 101, 58, 32>>
                        \o <<70, 105, 108, 101, 32, 105, 115, 32, 110, 111, 116, 32, 97, 32, 122, 105, 112, 32, 102, 105, 108, 101>>, s1)
             ELSE IF IsBlank(content)
             THEN Raise(<<69, 114, 114, 111, 114, 32, 114, 101, 97, 100, 105, 110, 103, 32, 69, 120, 99, 101, 108, 32, 102, 105, 108, 101, 58, 32>>
                        \o <<78, 111, 32, 100, 97, 116, 97, 32, 102, 111, 117, 110, 100, 32, 105, 110, 32, 69, 120, 99, 101, 108, 32, 102, 105, 108, 101>>, s1)
             ELSE Return(content, s1)

\* ------------------------------------------------------------ process_file
\* the size test of line 52 with >= in place of >
SizeExceeds_Inclusive(blob) == blob.size >= max_file_size

\* line 52: uploaded_file.size > self.max_file_size
SizeExceeds(blob) == blob.size > max_file_size

\* the extension of line 56 without lower()
file_extension_NoLower(name) ==
    LET parts == Split(name, 46) IN parts[Len(parts)]

\* line 56: uploaded_file.name.lower().split('.')[-1]
file_extension(name) ==
    LET parts == Split(Lower(name), 46) IN parts[Len(parts)]

\* the dispatch of lines 60-71 treating every unknown tag as text
Dispatch_DefaultText(ext, blob, st) ==
    CASE ext = <<112, 100, 102>> -> _process_pdf_file(blob, st)
      [] ext = <<100, 111, 99, 120>> -> _process_docx_file(blob, st)
      [] ext \in {<<120, 108, 115, 120>>, <<120, 108, 115>>} -> _process_excel_file(blob, st)
      [] ext = <<99, 115, 118>> -> _process_csv_file(blob, st)
      [] OTHER -> _process_text_file(blob, st)

\* lines 60-71: the extractor of the tag, or the unsupported-type error
Dispatch(ext, blob, st) ==
    CASE ext = <<116, 120, 116>> -> _process_text_file(blob, st)
      [] ext = <<112, 100, 102>> -> _process_pdf_file(blob, st)
      [] ext = <<100, 111, 99, 120>> -> _process_docx_file(blob, st)
      [] ext \in {<<120, 108, 115, 120>>, <<120, 108, 115>>} -> _process_excel_file(blob, st)
      [] ext = <<99, 115, 118>> -> _process_csv_file(blob, st)
      [] OTHER -> Raise(<<85, 110, 115, 117, 112, 112, 111, 114, 116, 101, 100, 32, 102, 105, 108, 101, 32, 116, 121, 112, 101, 58, 32>> \o ext, st)

\* the except of lines 73-74: any failure is re-raised with the tag
WrapError(ext, r) ==
    IF r.ok THEN r
    ELSE Raise(<<69, 114, 114, 111, 114, 32, 112, 114, 111, 99, 101, 115, 115, 105, 110, 103, 32>> \o Upper(ext) \o <<32, 102, 105, 108, 101, 58, 32>> \o r.value,
               r.st)

\* FileProcessor.process_file
process_file(blob, st) ==
    IF SizeExceeds(blob)
    THEN Raise(<<70, 105, 108, 101, 32, 115, 105, 122, 101, 32, 40>> \o IntToStr(blob.size)
               \o <<32, 98, 121, 116, 101, 115, 41, 32, 101, 120, 99, 101, 101, 100, 115, 32, 109, 97, 120, 105, 109, 117, 109, 32, 108, 105, 109, 105, 116, 32, 40>>
               \o IntToStr(max_file_size) \o <<32, 98, 121, 116, 101, 115, 41>>,
               Enter(st, "process_file"))
    ELSE WrapError(file_extension(blob.name),
                   Dispatch(file_extension(blob.name), blob,
                            Enter(st, "process_file")))

\* ------------------------------------------------------------------ inputs
\* the optional libraries probed at import
Libraries == {"PyPDF2", "pdfplumber", "docx", "openpyxl"}

\* the six tags process_file dispatches on
KnownTags == {<<116, 120, 116>>, <<112, 100, 102>>, <<100, 111, 99, 120>>, <<120, 108, 115, 120>>, <<120, 108, 115>>, <<99, 115, 118>>}

\* file names: with extension in either case, with several periods, with a
\* trailing period, and without any period
Names ==
    {<<97, 46, 116, 120, 116>>, <<65, 46, 84, 88, 84>>, <<114, 46, 112, 100, 102>>, <<82, 46, 80, 100, 102>>, <<100, 46, 100, 111, 99, 120>>, <<115, 46, 120, 108, 115, 120>>,
     <<115, 46, 120, 108, 115>>, <<116, 46, 99, 115, 118>>, <<97, 46, 98, 46, 67, 83, 86>>, <<97, 46, 116, 120, 116, 46, 98, 97, 107>>, <<97, 46, 109, 100>>, <<120, 46, 116, 97, 114, 46, 103, 122>>,
     <<97, 46>>, <<46, 116, 120, 116>>, <<114, 101, 97, 100, 109, 101>>, <<77, 97, 107, 101, 102, 105, 108, 101>>, <<116, 120, 116>>, <<80, 68, 70>>, <<99, 115, 118>>,
     <<120, 108, 115, 120>>, <<97, 46, 112, 100, 102, 120>>, <<97, 46, 100, 111, 99>>}

\* declared sizes around the limit
Sizes ==
    {0, 5, max_file_size - 1, max_file_size, max_file_size + 1,
     2 * max_file_size}

\* byte values of enumerated contents: a , ; line break, the UTF-8 pair
\* C3 A9, and 81, which cp1252 leaves undefined
DataBytes == {97, 44, 59, 10, 195, 169, 129}

\* every content of at most MaxLen bytes
DataStrings == UNION {[1..n -> DataBytes] : n \in 0..MaxLen}

\* longer delimited-text samples
CsvSamples ==
    {<<97, 44, 98, 44, 99, 10, 49, 44, 50, 44, 51>>, <<97, 59, 98, 59, 99, 10, 49, 59, 50, 59, 51>>, <<97, 10, 49, 10, 50, 44, 51>>, <<97, 9, 98, 10, 49, 9, 50>>,
     <<97, 10, 49, 44, 50, 10, 51, 59, 52, 59, 53>>}

\* page texts a PDF backend extracts
PageTexts == {<<>>, <<82, 101, 112, 111, 114, 116>>, <<32>>}

\* every document of at most MaxPages pages
PageLists == UNION {[1..n -> PageTexts] : n \in 0..MaxPages}

\* what the PDF backend finds in a blob
Pdf(valid, pages) == [valid |-> valid, pages |-> pages]

\* what python-docx finds in a blob
Docx(valid, paragraphs, tables) ==
    [valid |-> valid, paragraphs |-> paragraphs, tables |-> tables]

\* what pd.read_excel finds in a blob
Excel(valid, sheets) == [valid |-> valid, sheets |-> sheets]

\* an uploaded file: name, declared size, bytes, and what each library
\* parses from the bytes
Blob(name, size, data, pdf, docx, excel) ==
    [name |-> name, size |-> size, data |-> data, pdf |-> pdf,
     docx |-> docx, excel |-> excel]

NoPdf == Pdf(FALSE, <<>>)

NoDocx == Docx(FALSE, <<>>, <<>>)

NoExcel == Excel(FALSE, <<>>)

\* a document with one paragraph and one 1x1 table
SampleDocx == Docx(TRUE, <<<<72, 101, 108, 108, 111>>>>, << << <<<<87, 111, 114, 108, 100>>>> >> >>)

\* a workbook with one sheet
SampleExcel ==
    Excel(TRUE, <<[name |-> <<83, 104, 101, 101, 116, 49>>,
                   df |-> [ok |-> TRUE, columns |-> <<<<97>>>>,
                           rows |-> << <<<<49>>>> >>]]>>)

\* blobs of every name and size, well-formed for every library
DispatchBlobs ==
    {Blob(n, s, <<97, 44, 97, 10, 97>>, Pdf(TRUE, <<<<82, 101, 112, 111, 114, 116>>>>), SampleDocx, SampleExcel) :
        n \in Names, s \in Sizes}

\* text and CSV blobs of every enumerated content
ContentBlobs ==
    {Blob(n, Len(d), d, NoPdf, NoDocx, NoExcel) :
        n \in {<<97, 46, 116, 120, 116>>, <<116, 46, 99, 115, 118>>}, d \in DataStrings \cup CsvSamples}

\* PDF blobs of every enumerated page list, and a corrupt one
PdfBlobs ==
    {Blob(<<114, 46, 112, 100, 102>>, 5, <<37, 80, 68, 70, 45>>, Pdf(TRUE, p), NoDocx, NoExcel) : p \in PageLists}
    \cup {Blob(<<114, 46, 112, 100, 102>>, 5, <<97, 44, 97, 10, 97>>, NoPdf, NoDocx, NoExcel)}

\* DOCX and Excel blobs: a sample, an empty document, a corrupt one
OfficeBlobs ==
    {Blob(<<100, 46, 100, 111, 99, 120>>, 5, <<80, 75>>, NoPdf, d, NoExcel) :
        d \in {SampleDocx, Docx(TRUE, <<>>, <<>>), NoDocx}}
    \cup {Blob(<<115, 46, 120, 108, 115, 120>>, 5, <<80, 75>>, NoPdf, NoDocx, e) :
        e \in {SampleExcel, NoExcel}}

\* the spy and file object at the start of a call
FreshState(pos) ==
    [pos |-> pos, reads |-> 0, calls |-> <<>>, attempts |-> <<>>]

NoResult == [status |-> "none", fn |-> "", value |-> <<>>, pos0 |-> 0]

NoBlob == Blob(<<>>, 0, <<>>, NoPdf, NoDocx, NoExcel)

NoRun == [kind |-> "none"]

\* the session state of app.py lines 12-19, before any script run
SessionInit ==
    /\ uploaded_files = <<>>
    /\ chat_history = <<>>
    /\ chat_manager = [initialized |-> FALSE, chat |-> <<>>]
    /\ widget = <<>>
    /\ last_run = NoRun

\* --------------------------------------------- FileProcessor specification
\* a blob, a read position and a set of importable libraries
Init ==
    /\ \/ /\ uploaded_file \in DispatchBlobs
          /\ importable \in SUBSET Libraries
          /\ file_state = FreshState(0)
       \/ /\ uploaded_file \in ContentBlobs
          /\ importable = Libraries
          /\ file_state \in {FreshState(p) : p \in {0, Len(uploaded_file.data)}}
       \/ /\ uploaded_file \in PdfBlobs \cup OfficeBlobs
          /\ importable \in SUBSET Libraries
          /\ file_state = FreshState(0)
    /\ result = NoResult
    /\ SessionInit

\* the outcome of a call as the caller sees it
Outcome(fn, r, pos0) ==
    [status |-> IF r.ok THEN "returned" ELSE "raised", fn |-> fn,
     value |-> r.value, pos0 |-> pos0]

\* a call that ended with r
Called(fn, r) ==
    /\ result' = Outcome(fn, r, file_state.pos)
    /\ file_state' = r.st
    /\ UNCHANGED <<importable, uploaded_file, uploaded_files, chat_history,
                   chat_manager, widget, last_run>>

\* a caller runs process_file on the blob
Call_process_file ==
    /\ result.status = "none"
    /\ Called("process_file", process_file(uploaded_file, file_state))

\* a caller runs the text extractor on the blob
Call_process_text_file ==
    /\ result.status = "none"
    /\ Called("_process_text_file",
              _process_text_file(uploaded_file, file_state))

\* a caller runs the CSV extractor on the blob
Call_process_csv_file ==
    /\ result.status = "none"
    /\ Called("_process_csv_file",
              _process_csv_file(uploaded_file, file_state))

\* the caller rewinds the blob for another call (app.py line 52)
Rewind ==
    /\ result.status # "none"
    /\ result' = NoResult
    /\ file_state' = FreshState(0)
    /\ UNCHANGED <<importable, uploaded_file, uploaded_files, chat_history,
                   chat_manager, widget, last_run>>

Next ==
    \/ Call_process_file
    \/ Call_process_text_file
    \/ Call_process_csv_file
    \/ Rewind

Spec == Init /\ [][Next]_vars

\* ---------------------------------------------------------------- claims
\* a call has ended
Finished == result.status # "none"

\* the spy saw function fn entered during the call
Entered(fn) == \E i \in 1..Len(file_state.calls) : file_state.calls[i] = fn

\* the CSV attempts of the call, in order
CsvTried == SelectSeq(file_state.attempts, LAMBDA a : a.fn = "csv")

\* the text-decoding attempts of the call, in order
TextTried == SelectSeq(file_state.attempts, LAMBDA a : a.fn = "text")

\* the bytes of the blob from read position p to the end
BytesFrom(p) == SubSeq(uploaded_file.data, p + 1, Len(uploaded_file.data))

\* the lowercased part of a name after its last period, the whole
\* lowercased name when it has no period
FinalSuffix(name) ==
    LET periods == {i \in 1..Len(name) : name[i] = 46}
        last == IF periods = {} THEN 0
                ELSE CHOOSE i \in periods : \A j \in periods : j <= i
    IN  Lower(SubSeq(name, last + 1, Len(name)))

\* the message is a size-limit error
IsSizeError(message) == Len(message) >= 11 /\ SubSeq(message, 1, 11) = <<70, 105, 108, 101, 32, 115, 105, 122, 101, 32, 40>>

\* C1: a blob whose declared size exceeds 10 * 1024 * 1024 bytes makes
\* process_file fail with a size-limit error carrying the observed and the
\* allowed size, with no extractor entered and the blob never read; a blob of
\* exactly 10 * 1024 * 1024 bytes passes the size check.
C1_SizeLimit ==
    (Finished /\ result.fn = "process_file") =>
        /\ uploaded_file.size > 10485760 =>
              /\ result.status = "raised"
              /\ result.value =
                    <<70, 105, 108, 101, 32, 115, 105, 122, 101, 32, 40>> \o IntToStr(uploaded_file.size)
                    \o <<32, 98, 121, 116, 101, 115, 41, 32, 101, 120, 99, 101, 101, 100, 115, 32, 109, 97, 120, 105, 109, 117, 109, 32, 108, 105, 109, 105, 116, 32, 40, 49, 48, 52, 56, 53, 55, 54, 48, 32, 98, 121, 116, 101, 115, 41>>
              /\ file_state.calls = <<"process_file">>
              /\ file_state.reads = 0
              /\ file_state.attempts = <<>>
              /\ file_state.pos = result.pos0
        /\ uploaded_file.size = 10485760 =>
              ~(result.status = "raised" /\ IsSizeError(result.value))

\* C1 witness: process_file has rejected an oversize blob
C1_Witness ==
    /\ result.fn = "process_file"
    /\ result.status = "raised"
    /\ uploaded_file.size = 10485761
    /\ file_extension(uploaded_file.name) = <<99, 115, 118>>

\* C2 (as stated): on "a;b;c\n1;2;3" the comma attempt is not accepted and
\* the semicolon attempt is the one whose rendering is returned.
C2_SemicolonWins ==
    (Finished /\ Entered("_process_csv_file") /\ result.pos0 = 0
     /\ uploaded_file.data = <<97, 59, 98, 59, 99, 10, 49, 59, 50, 59, 51>>) =>
        /\ Len(CsvTried) = 2
        /\ ~CsvTried[1].ok
        /\ CsvTried[2].sep = 59 /\ CsvTried[2].ok
        /\ result.status = "returned"
        /\ result.value = <<97, 32, 98, 32, 99, 10, 49, 32, 50, 32, 51>>

\* C2 (amended): on "a;b;c\n1;2;3" the comma attempt under utf-8 parses to
\* a table of one column named "a;b;c" with one row, which the rule "more
\* than one column or at least one row" accepts; its rendering is returned
\* and no other pair is tried.
C2_CommaAccepted ==
    (Finished /\ Entered("_process_csv_file")
     /\ uploaded_file.data = <<97, 59, 98, 59, 99, 10, 49, 59, 50, 59, 51>>) =>
        /\ Len(CsvTried) = 1
        /\ CsvTried[1].encoding = "utf-8" /\ CsvTried[1].sep = 44
        /\ CsvTried[1].ok
        /\ TextTried = <<>>
        /\ result.status = "returned"
        /\ result.value = <<97, 59, 98, 59, 99, 10, 49, 59, 50, 59, 51>>

\* C2 witness: the CSV extractor has returned on the semicolon sample
C2_Witness ==
    /\ Entered("_process_csv_file")
    /\ uploaded_file.data = <<97, 59, 98, 59, 99, 10, 49, 59, 50, 59, 51>>
    /\ result.status = "returned"

RECURSIVE NonEmptyPages(_)
\* every page with text, in order, each followed by a line break
NonEmptyPages(pages) ==
    IF pages = <<>> THEN <<>>
    ELSE IF Head(pages) = <<>> THEN NonEmptyPages(Tail(pages))
    ELSE Head(pages) \o <<10>> \o NonEmptyPages(Tail(pages))

\* C3: under whichever PDF backend is bound, the pages are read in order
\* and a page without text contributes nothing, not even a line break: an
\* empty page followed by a page "Report" yields exactly "Report\n".
C3_EmptyPageContributesNothing ==
    (Finished /\ Entered("_process_pdf_file") /\ PDF_AVAILABLE
     /\ uploaded_file.pdf.valid /\ result.status = "returned") =>
        /\ result.value = NonEmptyPages(uploaded_file.pdf.pages)
        /\ uploaded_file.pdf.pages = <<<<>>, <<82, 101, 112, 111, 114, 116>>>> =>
              result.value = <<82, 101, 112, 111, 114, 116, 10>>

\* the message names a missing optional library
IsMissingDependency(message) ==
    Contains(message, <<32, 110, 111, 116, 32, 97, 118, 97, 105, 108, 97, 98, 108, 101, 46, 32, 80, 108, 101, 97, 115, 101, 32, 105, 110, 115, 116, 97, 108, 108, 32>>)

\* the tags of get_supported_types, as a set
SupportedTags ==
    {get_supported_types[i] : i \in 1..Len(get_supported_types)}

\* C6: the tags absent from get_supported_types() are pdf without a PDF
\* backend, docx without python-docx, xlsx and xls without openpyxl; for
\* such a tag process_file (size check passed) fails with a
\* missing-dependency error before any byte of the blob is read or its read
\* position moved, and no extraction is attempted.
C6_MissingBackendFailsFast ==
    /\ KnownTags \ SupportedTags =
          (IF importable \cap {"PyPDF2", "pdfplumber"} = {} THEN {<<112, 100, 102>>} ELSE {})
          \cup (IF "docx" \in importable THEN {} ELSE {<<100, 111, 99, 120>>})
          \cup (IF "openpyxl" \in importable THEN {} ELSE {<<120, 108, 115, 120>>, <<120, 108, 115>>})
    /\ (Finished /\ result.fn = "process_file"
        /\ uploaded_file.size <= 10485760
        /\ FinalSuffix(uploaded_file.name) \in KnownTags
        /\ FinalSuffix(uploaded_file.name) \notin SupportedTags) =>
           /\ result.status = "raised"
           /\ IsMissingDependency(result.value)
           /\ file_state.reads = 0
           /\ file_state.pos = result.pos0
           /\ file_state.attempts = <<>>

\* C6 witness: process_file was called on a PDF within the size limit
\* while no PDF backend is importable
C6_Witness ==
    /\ result.fn = "process_file"
    /\ Finished
    /\ uploaded_file.size <= 10485760
    /\ FinalSuffix(uploaded_file.name) = <<112, 100, 102>>
    /\ importable \cap {"PyPDF2", "pdfplumber"} = {}
    /\ uploaded_file.pdf.valid

\* C7: for a name whose tag is none of txt, pdf, docx, xlsx, xls, csv,
\* process_file on a blob within the size limit fails with an
\* unsupported-format error whose message names that exact tag, and no
\* extractor is entered.
C7_UnsupportedNamesTag ==
    (Finished /\ result.fn = "process_file"
     /\ uploaded_file.size <= 10485760
     /\ FinalSuffix(uploaded_file.name) \notin KnownTags) =>
        /\ result.status = "raised"
        /\ Contains(result.value,
                    <<85, 110, 115, 117, 112, 112, 111, 114, 116, 101, 100, 32, 102, 105, 108, 101, 32, 116, 121, 112, 101, 58, 32>> \o FinalSuffix(uploaded_file.name))
        /\ result.value =
              <<69, 114, 114, 111, 114, 32, 112, 114, 111, 99, 101, 115, 115, 105, 110, 103, 32>> \o Upper(FinalSuffix(uploaded_file.name))
              \o <<32, 102, 105, 108, 101, 58, 32, 85, 110, 115, 117, 112, 112, 111, 114, 116, 101, 100, 32, 102, 105, 108, 101, 32, 116, 121, 112, 101, 58, 32>>
              \o FinalSuffix(uploaded_file.name)
        /\ file_state.calls = <<"process_file">>
        /\ file_state.reads = 0

\* C7 witness: process_file has rejected a name with the tag "gz"
C7_Witness ==
    /\ result.fn = "process_file"
    /\ result.status = "raised"
    /\ uploaded_file.size <= 10485760
    /\ uploaded_file.name = <<120, 46, 116, 97, 114, 46, 103, 122>>

\* the name holds no period
Periodless(name) == \A i \in 1..Len(name) : name[i] # 46

\* the call ended with the unsupported-format error for tag
RejectedAsUnsupported(tag) ==
    /\ result.status = "raised"
    /\ Contains(result.value, <<85, 110, 115, 117, 112, 112, 111, 114, 116, 101, 100, 32, 102, 105, 108, 101, 32, 116, 121, 112, 101, 58, 32>> \o tag)
    /\ file_state.calls = <<"process_file">>

\* C8 (as stated): the tag is the lowercased substring after the final
\* period, the whole lowercased name when there is no period, and every
\* period-less name is treated as unsupported by process_file.
C8_PeriodlessUnsupported ==
    (Finished /\ result.fn = "process_file"
     /\ uploaded_file.size <= 10485760) =>
        /\ file_extension(uploaded_file.name) = FinalSuffix(uploaded_file.name)
        /\ Periodless(uploaded_file.name) =>
              RejectedAsUnsupported(Lower(uploaded_file.name))

\* C8 (amended): the tag is the lowercased substring after the final
\* period, the whole lowercased name when there is no period; a period-less
\* name is treated as unsupported unless its lowercased form is itself one
\* of the six tags, and then it is dispatched to that tag's extractor.
C8_TagIsFinalSuffix ==
    (Finished /\ result.fn = "process_file"
     /\ uploaded_file.size <= 10485760) =>
        /\ file_extension(uploaded_file.name) = FinalSuffix(uploaded_file.name)
        /\ Periodless(uploaded_file.name) =>
              /\ FinalSuffix(uploaded_file.name) = Lower(uploaded_file.name)
              /\ Lower(uploaded_file.name) \notin KnownTags =>
                    RejectedAsUnsupported(Lower(uploaded_file.name))
              /\ Lower(uploaded_file.name) \in KnownTags =>
                    /\ Len(file_state.calls) >= 2
                    /\ ~Contains(result.value, <<85, 110, 115, 117, 112, 112, 111, 114, 116, 101, 100, 32, 102, 105, 108, 101, 32, 116, 121, 112, 101, 58, 32>>)
        /\ result.status = "raised" =>
              Contains(result.value,
                       <<69, 114, 114, 111, 114, 32, 112, 114, 111, 99, 101, 115, 115, 105, 110, 103, 32>>
                       \o Upper(FinalSuffix(uploaded_file.name)) \o <<32, 102, 105, 108, 101, 58, 32>>)

\* C8 witness: process_file has dispatched the period-less name "PDF" to
\* the PDF extractor
C8_Witness ==
    /\ result.fn = "process_file"
    /\ Finished
    /\ uploaded_file.name = <<80, 68, 70>>
    /\ Entered("_process_pdf_file")

\* the nine (encoding, separator) pairs, encoding-major
ExpectedPairs ==
    <<[encoding |-> "utf-8", sep |-> 44], [encoding |-> "utf-8", sep |-> 59],
      [encoding |-> "utf-8", sep |-> 9], [encoding |-> "latin-1", sep |-> 44],
      [encoding |-> "latin-1", sep |-> 59], [encoding |-> "latin-1", sep |-> 9],
      [encoding |-> "cp1252", sep |-> 44], [encoding |-> "cp1252", sep |-> 59],
      [encoding |-> "cp1252", sep |-> 9]>>

\* the whole blob parsed under pair i
WholeFrame(i) ==
    read_csv(uploaded_file.data, ExpectedPairs[i].encoding, ExpectedPairs[i].sep)

\* pair i parses the whole blob without error into more than one column or
\* at least one row, and its rendering is not blank
PairAcceptable(i) ==
    /\ WholeFrame(i).ok
    /\ (Len(WholeFrame(i).columns) > 1 \/ Len(WholeFrame(i).rows) >= 1)
    /\ ~IsBlank(to_string(WholeFrame(i)))

\* C9: the CSV extractor tries the nine pairs in encoding-major order, the
\* read position at the start before each attempt; it returns the rendering
\* of the first acceptable pair and tries no later pair; if none is
\* acceptable it resets the read position and the text extractor's outcome
\* is the final outcome.
C9_FirstAcceptablePairWins ==
    (Finished /\ Entered("_process_csv_file")) =>
        /\ Len(CsvTried) \in 1..9
        /\ \A i \in 1..Len(CsvTried) :
              /\ CsvTried[i].encoding = ExpectedPairs[i].encoding
              /\ CsvTried[i].sep = ExpectedPairs[i].sep
              /\ CsvTried[i].pos = 0
              /\ CsvTried[i].ok <=> PairAcceptable(i)
              /\ i < Len(CsvTried) => ~CsvTried[i].ok
        /\ CsvTried[Len(CsvTried)].ok =>
              /\ result.status = "returned"
              /\ result.value = to_string(WholeFrame(Len(CsvTried)))
              /\ TextTried = <<>>
              /\ ~Entered("_process_text_file")
        /\ ~CsvTried[Len(CsvTried)].ok =>
              /\ Len(CsvTried) = 9
              /\ Entered("_process_text_file")
              /\ TextTried # <<>>
              /\ TextTried[1].pos = 0
              /\ TextTried[Len(TextTried)].ok =>
                    /\ result.status = "returned"
                    /\ result.value =
                          Decode(uploaded_file.data,
                                 TextTried[Len(TextTried)].encoding).text
              /\ ~TextTried[Len(TextTried)].ok =>
                    /\ result.status = "raised"
                    /\ Contains(result.value,
                                <<85, 110, 97, 98, 108, 101, 32, 116, 111, 32, 100, 101, 99, 111, 100, 101, 32, 102, 105, 108, 101, 32, 119, 105, 116, 104, 32, 99, 111, 109, 109, 111, 110, 32, 101, 110, 99, 111, 100, 105, 110, 103, 115>>)

\* C9 witness: the extractor returned the rendering of a pair that is not
\* the first one tried
C9_Witness ==
    /\ Entered("_process_csv_file")
    /\ result.status = "returned"
    /\ Len(CsvTried) > 1
    /\ CsvTried[Len(CsvTried)].ok

\* C10: the text extractor tries utf-8, latin-1, cp1252 in that order and
\* returns the text of the first that decodes without error; the read
\* position is at the start before every attempt after the first and when
\* the extractor returns; it fails with a decode failure exactly when none
\* of the three decodes the bytes.
C10_TextExtractor ==
    (Finished /\ Entered("_process_text_file")) =>
        /\ Len(TextTried) \in 1..3
        /\ \A i \in 1..Len(TextTried) :
              /\ TextTried[i].encoding = <<"utf-8", "latin-1", "cp1252">>[i]
              /\ i > 1 => TextTried[i].pos = 0
              /\ TextTried[i].ok <=>
                    Decode(BytesFrom(TextTried[i].pos), TextTried[i].encoding).ok
              /\ i < Len(TextTried) => ~TextTried[i].ok
        /\ file_state.pos = 0
        /\ TextTried[Len(TextTried)].ok =>
              /\ result.status = "returned"
              /\ result.fn = "_process_text_file" =>
                    result.value =
                        Decode(BytesFrom(TextTried[Len(TextTried)].pos),
                               TextTried[Len(TextTried)].encoding).text
        /\ ~TextTried[Len(TextTried)].ok =>
              /\ Len(TextTried) = 3
              /\ result.status = "raised"
              /\ Contains(result.value,
                          <<85, 110, 97, 98, 108, 101, 32, 116, 111, 32, 100, 101, 99, 111, 100, 101, 32, 102, 105, 108, 101, 32, 119, 105, 116, 104, 32, 99, 111, 109, 109, 111, 110, 32, 101, 110, 99, 111, 100, 105, 110, 103, 115>>)
        /\ result.status = "raised" <=>
              \A e \in {"utf-8", "latin-1", "cp1252"} :
                  ~Decode(uploaded_file.data, e).ok

\* C10 witness: utf-8 failed on the bytes and latin-1 decoded them
C10_Witness ==
    /\ result.fn = "_process_text_file"
    /\ result.status = "returned"
    /\ Len(TextTried) = 2
    /\ ~TextTried[1].ok
    /\ TextTried[2].ok

\* ------------------------------------------------------------ ChatManager
\* get_response's system_prompt (Helper.py lines 64-73)
system_prompt ==
    <<89, 111, 117, 32, 97, 114, 101, 32, 97, 32, 104, 101, 108, 112, 102,
      117, 108, 32, 65, 73, 32, 97, 115, 115, 105, 115, 116, 97, 110, 116,
      32, 116, 104, 97, 116, 32, 99, 97, 110, 32, 97, 110, 97, 108, 121, 122,
      101, 32, 97, 110, 100, 32, 100, 105, 115, 99, 117, 115, 115, 32, 117,
      112, 108, 111, 97, 100, 101, 100, 32, 102, 105, 108, 101, 115, 46, 32,
      10, 32, 32, 32, 32, 32, 32, 32, 32, 32, 32, 32, 32, 89, 111, 117, 32,
      104, 97, 118, 101, 32, 97, 99, 99, 101, 115, 115, 32, 116, 111, 32,
      116, 104, 101, 32, 99, 111, 110, 116, 101, 110, 116, 32, 111, 102, 32,
      102, 105, 108, 101, 115, 32, 116, 104, 97, 116, 32, 117, 115, 101, 114,
      115, 32, 104, 97, 118, 101, 32, 117, 112, 108, 111, 97, 100, 101, 100,
      46, 32, 87, 104, 101, 110, 32, 114, 101, 115, 112, 111, 110, 100, 105,
      110, 103, 58, 10, 32, 32, 32, 32, 32, 32, 32, 32, 32, 32, 32, 32, 49,
      46, 32, 66, 101, 32, 104, 101, 108, 112, 102, 117, 108, 32, 97, 110,
      100, 32, 105, 110, 102, 111, 114, 109, 97, 116, 105, 118, 101, 10, 32,
      32, 32, 32, 32, 32, 32, 32, 32, 32, 32, 32, 50, 46, 32, 82, 101, 102,
      101, 114, 101, 110, 99, 101, 32, 115, 112, 101, 99, 105, 102, 105, 99,
      32, 99, 111, 110, 116, 101, 110, 116, 32, 102, 114, 111, 109, 32, 117,
      112, 108, 111, 97, 100, 101, 100, 32, 102, 105, 108, 101, 115, 32, 119,
      104, 101, 110, 32, 114, 101, 108, 101, 118, 97, 110, 116, 10, 32, 32,
      32, 32, 32, 32, 32, 32, 32, 32, 32, 32, 51, 46, 32, 65, 115, 107, 32,
      99, 108, 97, 114, 105, 102, 121, 105, 110, 103, 32, 113, 117, 101, 115,
      116, 105, 111, 110, 115, 32, 105, 102, 32, 110, 101, 101, 100, 101,
      100, 10, 32, 32, 32, 32, 32, 32, 32, 32, 32, 32, 32, 32, 52, 46, 32,
      80, 114, 111, 118, 105, 100, 101, 32, 100, 101, 116, 97, 105, 108, 101,
      100, 32, 101, 120, 112, 108, 97, 110, 97, 116, 105, 111, 110, 115, 32,
      119, 104, 101, 110, 32, 97, 110, 97, 108, 121, 122, 105, 110, 103, 32,
      102, 105, 108, 101, 32, 99, 111, 110, 116, 101, 110, 116, 10, 32, 32,
      32, 32, 32, 32, 32, 32, 32, 32, 32, 32, 53, 46, 32, 66, 101, 32, 99,
      111, 110, 99, 105, 115, 101, 32, 98, 117, 116, 32, 116, 104, 111, 114,
      111, 117, 103, 104, 32, 105, 110, 32, 121, 111, 117, 114, 32, 114, 101,
      115, 112, 111, 110, 115, 101, 115, 10, 32, 32, 32, 32, 32, 32, 32, 32,
      32, 32, 32, 32, 10, 32, 32, 32, 32, 32, 32, 32, 32, 32, 32, 32, 32, 73,
      102, 32, 116, 104, 101, 32, 117, 115, 101, 114, 32, 97, 115, 107, 115,
      32, 97, 98, 111, 117, 116, 32, 102, 105, 108, 101, 115, 32, 98, 117,
      116, 32, 110, 111, 32, 102, 105, 108, 101, 32, 99, 111, 110, 116, 101,
      110, 116, 32, 105, 115, 32, 112, 114, 111, 118, 105, 100, 101, 100, 44,
      32, 108, 101, 116, 32, 116, 104, 101, 109, 32, 107, 110, 111, 119, 32,
      121, 111, 117, 32, 100, 111, 110, 39, 116, 32, 115, 101, 101, 32, 97,
      110, 121, 32, 117, 112, 108, 111, 97, 100, 101, 100, 32, 102, 105, 108,
      101, 115, 46, 10, 32, 32, 32, 32, 32, 32, 32, 32, 32, 32, 32, 32>>

\* ChatManager.initialize: the model is configured and a chat session with
\* an empty history is started
initialize(manager) == [initialized |-> TRUE, chat |-> <<>>]

\* lines 109-110 of app.py: initialize only when not yet initialized
EnsureInitialized(manager) ==
    IF manager.initialized THEN manager ELSE initialize(manager)

\* lines 77-88: the history handed over, in the client's roles
ClientHistory(conversation_history) ==
    [i \in 1..Len(conversation_history) |->
        [role |-> IF conversation_history[i].role = "user"
                  THEN "user" ELSE "model",
         parts |-> <<conversation_history[i].content>>]]

\* lines 99-110: the message of the exception get_response raises for a
\* client error e
ResponseError(e) ==
    IF Contains(Lower(e), <<97, 112, 105, 32, 107, 101, 121>>)
    THEN <<73, 110, 118, 97, 108, 105, 100, 32, 111, 114, 32, 101, 120, 112, 105, 114, 101, 100, 32, 65, 80, 73, 32, 107, 101, 121, 46, 32, 80, 108, 101, 97, 115, 101, 32, 99, 104, 101, 99, 107, 32, 121, 111, 117, 114, 32, 71, 69, 77, 73, 78, 73, 95, 65, 80, 73, 95, 75, 69, 89, 46>>
    ELSE IF Contains(Lower(e), <<113, 117, 111, 116, 97>>) \/ Contains(Lower(e), <<108, 105, 109, 105, 116>>)
    THEN <<65, 80, 73, 32, 113, 117, 111, 116, 97, 32, 101, 120, 99, 101, 101, 100, 101, 100, 46, 32, 80, 108, 101, 97, 115, 101, 32, 116, 114, 121, 32, 97, 103, 97, 105, 110, 32, 108, 97, 116, 101, 114, 46>>
    ELSE IF Contains(Lower(e), <<98, 108, 111, 99, 107, 101, 100>>)
    THEN <<77, 101, 115, 115, 97, 103, 101, 32, 119, 97, 115, 32, 98, 108, 111, 99, 107, 101, 100, 32, 98, 121, 32, 115, 97, 102, 101, 116, 121, 32, 102, 105, 108, 116, 101, 114, 115, 46, 32, 80, 108, 101, 97, 115, 101, 32, 114, 101, 112, 104, 114, 97, 115, 101, 32, 121, 111, 117, 114, 32, 109, 101, 115, 115, 97, 103, 101, 46>>
    ELSE <<69, 114, 114, 111, 114, 32, 103, 101, 116, 116, 105, 110, 103, 32, 65, 73, 32, 114, 101, 115, 112, 111, 110, 115, 101, 58, 32>> \o e

\* session.send_message(text) on a client session holding the turns
\* `session`: the reply (the session then holds the two new turns) or a
\* client error (the session is left as it was); `kept` tells whether the
\* session is ChatManager.chat, which outlives the call
SendOnSession(session, kept, text, manager, outcome) ==
    [ok |-> outcome.ok,
     value |-> IF outcome.ok THEN outcome.text ELSE ResponseError(outcome.text),
     manager |-> IF outcome.ok /\ kept
                 THEN [manager EXCEPT !.chat =
                          session \o <<[role |-> "user", parts |-> <<text>>],
                                       [role |-> "model", parts |-> <<outcome.text>>]>>]
                 ELSE manager,
     called |-> TRUE, prior |-> session, text |-> text]

\* ChatManager.get_response
get_response(message, conversation_history, manager, outcome) ==
    IF ~manager.initialized
    THEN [ok |-> FALSE,
          value |-> <<67, 104, 97, 116, 77, 97, 110, 97, 103, 101, 114, 32, 110, 111, 116, 32, 105, 110, 105, 116, 105, 97, 108, 105, 122, 101, 100, 46, 32, 67, 97, 108, 108, 32, 105, 110, 105, 116, 105, 97, 108, 105, 122, 101, 40, 41, 32, 102, 105, 114, 115, 116, 46>>,
          manager |-> manager, called |-> FALSE, prior |-> <<>>, text |-> <<>>]
    ELSE IF conversation_history # <<>>
    THEN SendOnSession(ClientHistory(conversation_history), FALSE,
                       system_prompt \o <<10, 10, 85, 115, 101, 114, 58, 32>> \o message,
                       manager, outcome)
    ELSE SendOnSession(manager.chat, TRUE,
                       system_prompt \o <<10, 10, 85, 115, 101, 114, 58, 32>> \o message,
                       manager, outcome)

\* -------------------------------------------------------------- app.py
\* max_size of the upload loop (line 44)
max_size == 10 * 1024 * 1024

\* the keys of st.session_state.uploaded_files
FileNames(mapping) == {mapping[i].name : i \in 1..Len(mapping)}

\* lines 53-65: the file is recorded, or its failure is shown
UploadRecorded(f, r, acc) ==
    IF r.ok
    THEN [mapping |-> Append(acc.mapping,
                             [name |-> f.name, content |-> r.value,
                              size |-> f.size]),
          errors |-> acc.errors]
    ELSE [mapping |-> acc.mapping,
          errors |-> Append(acc.errors,
                            <<10060>> \o <<32, 69, 114, 114, 111, 114, 32, 112, 114, 111, 99, 101, 115, 115, 105, 110, 103, 32>> \o f.name
                            \o <<58, 32>> \o r.value)]

\* lines 42-65: one pass of the upload loop
UploadStep(f, acc) ==
    IF f.name \in FileNames(acc.mapping) THEN acc
    ELSE IF f.size > max_size
    THEN [mapping |-> acc.mapping,
          errors |-> Append(acc.errors,
                            <<10060>> \o <<32>> \o f.name
                            \o <<32, 105, 115, 32, 116, 111, 111, 32, 108, 97, 114, 103, 101, 46, 32, 77, 97, 120, 105, 109, 117, 109, 32, 115, 105, 122, 101, 32, 105, 115, 32, 49, 48, 77, 66, 46>>)]
    ELSE UploadRecorded(f, process_file(f, FreshState(0)), acc)

RECURSIVE UploadLoop_AbortOnError(_, _)
\* the upload loop leaving at the first file that fails
UploadLoop_AbortOnError(files, acc) ==
    IF files = <<>> THEN acc
    ELSE IF UploadStep(Head(files), acc).errors # acc.errors
    THEN UploadStep(Head(files), acc)
    ELSE UploadLoop_AbortOnError(Tail(files), UploadStep(Head(files), acc))

RECURSIVE UploadLoop(_, _)
\* lines 41-65: the for loop over the files of the widget
UploadLoop(files, acc) ==
    IF files = <<>> THEN acc
    ELSE UploadLoop(Tail(files), UploadStep(Head(files), acc))

\* lines 40-65: the upload processing of one script run
ProcessUploads(files, mapping) ==
    UploadLoop(files, [mapping |-> mapping, errors |-> <<>>])

\* line 89: del st.session_state.uploaded_files[filename]
Delete(mapping, name) == SelectSeq(mapping, LAMBDA e : e.name # name)

\* lines 141-146: the context text built from the uploaded files
file_context(mapping) ==
    IF mapping = <<>> THEN <<>>
    ELSE <<10, 10, 85, 112, 108, 111, 97, 100, 101, 100, 32, 102, 105, 108, 101, 115, 32, 99, 111, 110, 116, 101, 120, 116, 58, 10>>
         \o Concat([i \in 1..Len(mapping) |->
                <<10, 45, 45, 45, 32>> \o mapping[i].name \o <<32, 45, 45, 45, 10>>
                \o mapping[i].content \o <<10>>])

\* chat_history[:-1] and chat_history.pop()
ButLast(history) == SubSeq(history, 1, Len(history) - 1)

\* lines 150-169 keeping the user turn when the reply attempt fails
AfterResponse_NoPop(h, r) ==
    [history |-> IF r.ok
                 THEN Append(h, [role |-> "assistant", content |-> r.value])
                 ELSE h,
     response |-> r]

\* lines 150-169: the assistant turn is appended, or the user turn is
\* popped when get_response raised
AfterResponse(h, r) ==
    [history |-> IF r.ok
                 THEN Append(h, [role |-> "assistant", content |-> r.value])
                 ELSE ButLast(h),
     response |-> r]

\* lines 135-156: the user turn is appended and get_response is called with
\* the input, the file context and the history without the new turn
SendMessage(history, mapping, manager, user_input, outcome) ==
    AfterResponse(
        Append(history, [role |-> "user", content |-> user_input]),
        get_response(user_input \o file_context(mapping),
                     ButLast(Append(history,
                                    [role |-> "user", content |-> user_input])),
                     manager, outcome))

\* ------------------------------------------------------- session inputs
\* files a user may put into the uploader (its type filter admits txt, pdf,
\* docx, xlsx and csv): two files of the same name, a PDF with text, a PDF
\* without text, and an oversize CSV
AppFiles ==
    {Blob(<<97, 46, 116, 120, 116>>, 1, <<97>>, NoPdf, NoDocx, NoExcel),
     Blob(<<97, 46, 116, 120, 116>>, 2, <<97, 59>>, NoPdf, NoDocx, NoExcel),
     Blob(<<114, 46, 112, 100, 102>>, 5, <<37, 80, 68, 70, 45>>, Pdf(TRUE, <<<<82, 101, 112, 111, 114, 116>>>>), NoDocx, NoExcel),
     Blob(<<101, 46, 112, 100, 102>>, 5, <<37, 80, 68, 70, 45>>, Pdf(TRUE, <<>>), NoDocx, NoExcel),
     Blob(<<116, 46, 99, 115, 118>>, max_size + 1, <<97, 44, 97>>, NoPdf, NoDocx, NoExcel)}

\* the files of the chat sessions: a text file and a PDF without text
ChatFiles ==
    {Blob(<<97, 46, 116, 120, 116>>, 1, <<97>>, NoPdf, NoDocx, NoExcel),
     Blob(<<101, 46, 112, 100, 102>>, 5, <<37, 80, 68, 70, 45>>, Pdf(TRUE, <<>>), NoDocx, NoExcel)}

\* the contents of the uploader drawn from `files`: at most MaxBatch
\* different files, in order
Widgets(files) ==
    {w \in UNION {[1..n -> files] : n \in 0..MaxBatch} :
        \A i, j \in 1..Len(w) : i # j => w[i] # w[j]}

\* what the user types into the chat box (the last one is blank)
UserInputs == {<<104, 105>>, <<115, 117, 109, 63>>, <<32, 10>>}

\* how the generative-AI client answers: a reply, or an error
ClientOutcomes ==
    {[ok |-> TRUE, text |-> <<111, 107>>],
     [ok |-> FALSE, text |-> <<65, 80, 73, 32, 107, 101, 121, 32, 110, 111, 116, 32, 118, 97, 108, 105, 100>>],
     [ok |-> FALSE, text |-> <<100, 101, 97, 100, 108, 105, 110, 101, 32, 101, 120, 99, 101, 101, 100, 101, 100>>]}

\* a script run in which get_response was not called
NoResponse ==
    [ok |-> FALSE, value |-> <<>>, called |-> FALSE, prior |-> <<>>,
     text |-> <<>>]

\* ---------------------------------------------------- app specification
\* the session of a fresh browser tab
InitApp ==
    /\ importable \in {Libraries, {"PyPDF2"}, {}}
    /\ uploaded_file = NoBlob
    /\ file_state = FreshState(0)
    /\ result = NoResult
    /\ SessionInit

\* the script run ends: `up` is what its last upload loop left
Ran(kind, loop_before, up, input, response) ==
    /\ uploaded_files' = up.mapping
    /\ last_run' = [kind |-> kind, loop_before |-> loop_before,
                    errors |-> up.errors, history_before |-> chat_history,
                    input |-> input,
                    response |-> [ok |-> response.ok, value |-> response.value,
                                  called |-> response.called,
                                  prior |-> response.prior,
                                  text |-> response.text]]
    /\ UNCHANGED <<importable, uploaded_file, file_state, result>>

\* st.rerun(): the script runs again from the top with the mapping m
Rerun(kind, m, input, response) ==
    Ran(kind, m, ProcessUploads(widget', m), input, response)

\* the user changes the files of the uploader; the script runs
ChangeFiles(files) ==
    /\ files # widget
    /\ widget' = files
    /\ Rerun("upload", uploaded_files, <<>>, NoResponse)
    /\ chat_manager' = EnsureInitialized(chat_manager)
    /\ UNCHANGED chat_history

\* the mapping after the upload loop of the run in which Remove is clicked
\* and the del of line 89
RemoveClicked(files, mapping, name) ==
    Delete(ProcessUploads(files, mapping).mapping, name)

\* the user clicks Remove for a file (lines 87-90)
Remove(name) ==
    /\ name \in FileNames(uploaded_files)
    /\ widget' = widget
    /\ Rerun("remove", RemoveClicked(widget, uploaded_files, name), name,
             NoResponse)
    /\ chat_manager' = EnsureInitialized(chat_manager)
    /\ UNCHANGED chat_history

\* the user clicks Clear All Files (lines 93-96)
ClearAllFiles ==
    /\ uploaded_files # <<>>
    /\ widget' = widget
    /\ Rerun("clear_files", <<>>, <<>>, NoResponse)
    /\ chat_manager' = EnsureInitialized(chat_manager)
    /\ UNCHANGED chat_history

\* the Send handler ended with s; st.rerun() follows
Sent(s, mapping, input) ==
    /\ chat_history' = s.history
    /\ chat_manager' = s.response.manager
    /\ widget' = widget
    /\ Rerun("send", mapping, input, s.response)
    /\ Len(chat_history') <= MaxHistory
    /\ Len(chat_manager'.chat) <= MaxChat

\* the user clicks Send Message with a non-blank input (lines 132-172); the
\* client answers with outcome
Send(input, outcome) ==
    /\ ~IsBlank(input)
    /\ Sent(SendMessage(chat_history,
                        ProcessUploads(widget, uploaded_files).mapping,
                        EnsureInitialized(chat_manager), input, outcome),
            ProcessUploads(widget, uploaded_files).mapping, input)

\* the user clicks Send Message with a blank input (lines 173-174): a
\* warning, no rerun
SendBlank(input) ==
    /\ IsBlank(input)
    /\ widget' = widget
    /\ Ran("send", uploaded_files, ProcessUploads(widget, uploaded_files),
           input, NoResponse)
    /\ chat_manager' = EnsureInitialized(chat_manager)
    /\ UNCHANGED chat_history

\* the user clicks Clear Chat (lines 177-179)
ClearChat ==
    /\ chat_history' = <<>>
    /\ widget' = widget
    /\ Rerun("clear_chat", ProcessUploads(widget, uploaded_files).mapping,
             <<>>, NoResponse)
    /\ chat_manager' = EnsureInitialized(chat_manager)

\* a session in which files are uploaded and removed
NextUpload ==
    \/ \E files \in Widgets(AppFiles) : ChangeFiles(files)
    \/ \E name \in FileNames(uploaded_files) : Remove(name)
    \/ ClearAllFiles

SpecUpload == InitApp /\ [][NextUpload]_vars

\* a session with chat
NextApp ==
    \/ \E files \in Widgets(ChatFiles) : ChangeFiles(files)
    \/ \E name \in FileNames(uploaded_files) : Remove(name)
    \/ ClearAllFiles
    \/ \E input \in UserInputs, outcome \in ClientOutcomes : Send(input, outcome)
    \/ \E input \in UserInputs : SendBlank(input)
    \/ ClearChat

SpecApp == InitApp /\ [][NextApp]_vars

\* ------------------------------------------------------ session claims
\* C4: a failed chat turn leaves the conversation history exactly as it was
\* before the turn (the user turn just added is removed, no assistant turn
\* is added); a successful one leaves the history followed by the user turn
\* and then the assistant turn.
C4_FailedTurnLeavesHistory ==
    (last_run.kind = "send" /\ ~IsBlank(last_run.input)) =>
        /\ last_run.response.ok =>
              chat_history =
                  last_run.history_before
                  \o <<[role |-> "user", content |-> last_run.input],
                       [role |-> "assistant",
                        content |-> last_run.response.value]>>
        /\ ~last_run.response.ok => chat_history = last_run.history_before

\* C4 witness: a reply attempt has failed after earlier turns
C4_Witness ==
    /\ last_run.kind = "send"
    /\ ~IsBlank(last_run.input)
    /\ last_run.response.called
    /\ ~last_run.response.ok
    /\ Len(last_run.history_before) = 2
    /\ chat_history = last_run.history_before

\* file i of the uploader is within the size limit and process_file
\* extracts it
Extractable(i) ==
    /\ widget[i].size <= 10485760
    /\ process_file(widget[i], FreshState(0)).ok

\* the name of file i was not in the mapping when the loop reached it:
\* neither before the loop nor recorded from an earlier file of the batch
ReachedNew(i) ==
    /\ widget[i].name \notin FileNames(last_run.loop_before)
    /\ \A j \in 1..(i - 1) :
          widget[j].name = widget[i].name => ~Extractable(j)

\* the entry the upload loop makes of file i
EntryOf(i) ==
    [name |-> widget[i].name,
     content |-> process_file(widget[i], FreshState(0)).value,
     size |-> widget[i].size]

\* C5: one file's failure (oversize or an extraction error) does not abort
\* the batch: after the processing loop every file within the size limit
\* whose name was not already in the mapping and whose extraction succeeds
\* is recorded with its extracted content, whatever the position and outcome
\* of the other files; a file whose extraction failed is not recorded, and
\* its failure is shown.
C5_BatchIsolation ==
    last_run.kind # "none" =>
        /\ Len(last_run.loop_before) <= Len(uploaded_files)
        /\ SubSeq(uploaded_files, 1, Len(last_run.loop_before))
              = last_run.loop_before
        /\ \A i \in 1..Len(widget) :
              /\ (ReachedNew(i) /\ Extractable(i)) =>
                    \E k \in 1..Len(uploaded_files) :
                        uploaded_files[k] = EntryOf(i)
              /\ (ReachedNew(i) /\ ~Extractable(i)) =>
                    \A k \in 1..Len(uploaded_files) :
                        uploaded_files[k].name = widget[i].name =>
                            \E j \in 1..Len(widget) :
                                /\ j # i /\ Extractable(j)
                                /\ uploaded_files[k] = EntryOf(j)
        /\ Len(last_run.errors)
              = Cardinality({i \in 1..Len(widget) :
                                ReachedNew(i) /\ ~Extractable(i)})

\* C5 witness: the first file of a batch failed in extraction and the
\* second one was recorded
C5_Witness ==
    /\ last_run.kind = "upload"
    /\ Len(widget) >= 2
    /\ widget[1].size <= 10485760
    /\ ~Extractable(1)
    /\ ReachedNew(2) /\ Extractable(2)
    /\ \E k \in 1..Len(uploaded_files) : uploaded_files[k] = EntryOf(2)

\* C11: on every Send in which the client is called, the prior turns the
\* client has as context for the current message are exactly the chat
\* history before that message, in order and in the client's roles; in
\* particular the first message after Clear Chat has no prior turns.
C11_ClientContextIsHistory ==
    (last_run.kind = "send" /\ last_run.response.called) =>
        last_run.response.prior = ClientHistory(last_run.history_before)

\* C12: after the user clicks Remove for a file, or Clear All Files, and the
\* script has rerun, the removed files are absent from the uploaded-files
\* mapping, also when the file-uploader widget still holds them.
C12_RemovedStaysAbsent ==
    /\ last_run.kind = "remove" =>
          last_run.input \notin FileNames(uploaded_files)
    /\ last_run.kind = "clear_files" => uploaded_files = <<>>

====
